---- MODULE Spec2Model ----
(***************************************************************************)
(* A model of the Isere front end (src/main.cpp, the complete compiler     *)
(* that starts at line 778): the lexer getTok, the recursive-descent and   *)
(* precedence-climbing parser, the lowering of the AST into an LLVM        *)
(* module, and the driver MainLoop.                                        *)
(*                                                                         *)
(* Characters are one-character strings, texts are sequences of them.      *)
(* Tokens are strings: the five enumerators of Token by name, every other  *)
(* token the character itself.                                             *)
(***************************************************************************)
EXTENDS Integers, Sequences, FiniteSets, TLC

VARIABLES
  stdin,          \* the whole standard input, a sequence of characters
  rd,             \* how many characters getchar() has handed out
  LastChar,       \* getTok's static one-character lookahead
  IdentifierStr,  \* filled in if tok_identifier
  NumVal,         \* filled in if tok_number
  CurTok,         \* the parser's current token
  TheModule,      \* the LLVM module: its functions and its symbol table counter
  NamedValues,    \* the name-to-value environment of the function being lowered
  Builder,        \* the IRBuilder's insertion point: a function id, 0 for none
  pc,             \* where main() is: "prime", "loop", "done" or "aborted"
  tokens,         \* history: every token getTok has returned, in order
  comments,       \* history: every block comment getTok has scanned
  defined,        \* history: the names a definition was lowered for with success
  last,           \* history: what the last handler parsed, lowered and reported
  probe           \* history: what the input was built from

vars == <<stdin, rd, LastChar, IdentifierStr, NumVal, CurTok, TheModule,
          NamedValues, Builder, pc, tokens, comments, defined, last,
          probe>>

\* ------------------------------------------------------------------------
\* Bounds of the model
\* ------------------------------------------------------------------------

\* the most top-level constructs a program of Spec holds
MaxConstructs == 3

\* the most binary operators an expression of SpecExpr holds
MaxOps == 3

\* the longest comment body, and the longest text before and after the
\* comment, that SpecLex reads
MaxBody == 3

MaxAround == 1

\* the lexemes of an input of SpecTok, the starter not counted
MaxToks == 4

\* the lexemes after fn or import of an input of SpecProto
MaxProtoToks == 5

\* the longest input of SpecSpace and of SpecChars
MaxSpaces == 4

MaxChars == 5

\* ------------------------------------------------------------------------
\* Characters and tokens
\* ------------------------------------------------------------------------

EOF == "EOF"

tok_eof == "tok_eof"

tok_fun == "tok_fun"

tok_imp == "tok_imp"

tok_identifier == "tok_identifier"

tok_number == "tok_number"

Token == {tok_eof, tok_fun, tok_imp, tok_identifier, tok_number}

Range(seq) == {seq[i] : i \in 1..Len(seq)}

isspace(c) == c \in {" ", "\t", "\n", "\r", "\f"}

isdigit(c) == c \in {"0", "1", "2", "3", "4", "5", "6", "7", "8", "9"}

isalpha(c) ==
  c \in {"a", "b", "c", "d", "e", "f", "g", "h", "i", "j", "k", "l", "m",
         "n", "o", "p", "q", "r", "s", "t", "u", "v", "w", "x", "y", "z",
         "A", "B", "C", "D", "E", "F", "G", "H", "I", "J", "K", "L", "M",
         "N", "O", "P", "Q", "R", "S", "T", "U", "V", "W", "X", "Y", "Z"}

isalnum(c) == isalpha(c) \/ isdigit(c)

isascii(t) == t \notin Token

\* ------------------------------------------------------------------------
\* strtod: the value of the longest prefix  digit* [ . digit* ]  that holds
\* a digit, 0.0 when there is none.  A value is the pair of its integer
\* digits without leading zeros and its fraction digits without trailing
\* zeros, so two texts have the same value exactly when the pairs are equal.
\* ------------------------------------------------------------------------

RECURSIVE DigitRun(_, _)
DigitRun(s, i) ==
  IF i <= Len(s) /\ isdigit(s[i]) THEN <<s[i]>> \o DigitRun(s, i + 1) ELSE <<>>

RECURSIVE StripLeadingZeros(_)
StripLeadingZeros(d) ==
  IF d # <<>> /\ Head(d) = "0" THEN StripLeadingZeros(Tail(d)) ELSE d

RECURSIVE StripTrailingZeros(_)
StripTrailingZeros(d) ==
  IF d # <<>> /\ d[Len(d)] = "0"
  THEN StripTrailingZeros(SubSeq(d, 1, Len(d) - 1))
  ELSE d

strtod(s) ==
  LET ip == DigitRun(s, 1)
      dot == Len(ip) + 1 <= Len(s) /\ s[Len(ip) + 1] = "."
      fp == IF dot THEN DigitRun(s, Len(ip) + 2) ELSE <<>>
  IN  IF ip = <<>> /\ fp = <<>>
      THEN [ip |-> <<>>, fp |-> <<>>]
      ELSE [ip |-> StripLeadingZeros(ip), fp |-> StripTrailingZeros(fp)]

\* ------------------------------------------------------------------------
\* The lexer.  A lexer state L is the record of stdin, the read position,
\* getTok's static LastChar, the two token payloads, the messages written
\* to stderr and the block comments scanned so far.
\* ------------------------------------------------------------------------

\* LastChar = getchar()
getchar(L) ==
  IF L.rd < Len(L.in)
  THEN [L EXCEPT !.LastChar = L.in[L.rd + 1], !.rd = L.rd + 1]
  ELSE [L EXCEPT !.LastChar = EOF]

\* SkipWhitespace with if in the place of while
SkipWhitespaceOnce(L) == IF isspace(L.LastChar) THEN getchar(L) ELSE L

\* while (isspace(LastChar)) LastChar = getchar();
RECURSIVE SkipWhitespace(_)
SkipWhitespace(L) ==
  IF isspace(L.LastChar) THEN SkipWhitespace(getchar(L)) ELSE L

\* while (isalnum((LastChar = getchar()))) IdentifierStr += LastChar;
RECURSIVE ReadIdentifier(_)
ReadIdentifier(L) ==
  LET n == getchar(L)
  IN  IF isalnum(n.LastChar)
      THEN ReadIdentifier([n EXCEPT !.IdentifierStr = @ \o <<n.LastChar>>])
      ELSE n

\* ReadNumber with the run ended by a second '.'
RECURSIVE ReadNumberOneDot(_, _)
ReadNumberOneDot(L, NumStr) ==
  LET n == getchar(L)
      str == NumStr \o <<L.LastChar>>
  IN  IF isdigit(n.LastChar) \/ (n.LastChar = "." /\ "." \notin Range(str))
      THEN ReadNumberOneDot(n, str)
      ELSE [L |-> n, NumStr |-> str]

\* do { NumStr += LastChar; LastChar = getchar(); }
\* while (isdigit(LastChar) || LastChar == '.');
RECURSIVE ReadNumber(_, _)
ReadNumber(L, NumStr) ==
  LET n == getchar(L)
      str == NumStr \o <<L.LastChar>>
  IN  IF isdigit(n.LastChar) \/ n.LastChar = "."
      THEN ReadNumber(n, str)
      ELSE [L |-> n, NumStr |-> str]

\* do LastChar = getchar();
\* while (LastChar != EOF && LastChar != '\n' && LastChar != '\r');
RECURSIVE SkipLineComment(_)
SkipLineComment(L) ==
  LET n == getchar(L)
  IN  IF n.LastChar # EOF /\ n.LastChar # "\n" /\ n.LastChar # "\r"
      THEN SkipLineComment(n)
      ELSE n

\* The while (true) loop of the multi-line comment.  The result says whether
\* the loop left by break (closed) or by return tok_eof.
RECURSIVE SkipBlockCommentFrom(_)
SkipBlockCommentFrom(L) ==
  LET n == getchar(L)
  IN  IF n.LastChar = EOF
      THEN [L |-> n, closed |-> FALSE]
      ELSE IF n.LastChar = "*"
           THEN LET m == getchar(n)
                IN  IF m.LastChar = "/"
                    THEN [L |-> m, closed |-> TRUE]
                    ELSE SkipBlockCommentFrom(m)
           ELSE SkipBlockCommentFrom(n)

SkipBlockComment(L) == SkipBlockCommentFrom(L)

UnterminatedMsg == "Error: Unterminated multi-line comment"

RECURSIVE getTok(_)

Tok(tok, L) == [tok |-> tok, L |-> L]

\* after the identifier was read into IdentifierStr
IdentifierTok(L) ==
  Tok(IF L.IdentifierStr = <<"f", "n">> THEN tok_fun
      ELSE IF L.IdentifierStr = <<"i", "m", "p", "o", "r", "t">> THEN tok_imp
      ELSE tok_identifier,
      L)

\* NumVal = strtod(NumStr.c_str(), 0); return tok_number;
NumberTok(r) == Tok(tok_number, [r.L EXCEPT !.NumVal = strtod(r.NumStr)])

\* after the single-line comment: if (LastChar != EOF) return getTok();
\* at EOF control falls to the check for end of file
AfterLineComment(L) ==
  IF L.LastChar # EOF THEN getTok(L) ELSE Tok(tok_eof, L)

\* AfterBlockComment with the fprintf(stderr, ...) of the unterminated
\* comment left out
AfterBlockCommentSilent(open, s) ==
  IF s.closed
  THEN getTok(getchar([s.L EXCEPT !.cmt =
                         @ \o <<[open |-> open, close |-> s.L.rd]>>]))
  ELSE Tok(tok_eof, [s.L EXCEPT !.cmt = @ \o <<[open |-> open, close |-> 0]>>])

\* after the multi-line loop, which the opening's '*' at position `open`
\* started: on break, LastChar = getchar(); return getTok();
AfterBlockComment(open, s) ==
  IF s.closed
  THEN getTok(getchar([s.L EXCEPT !.cmt =
                         @ \o <<[open |-> open, close |-> s.L.rd]>>]))
  ELSE Tok(tok_eof,
           [s.L EXCEPT !.cmt = @ \o <<[open |-> open, close |-> 0]>>,
                       !.log = @ \o <<UnterminatedMsg>>])

\* if (LastChar == '/') { LastChar = getchar(); ... }: L has the character
\* after the '/'
SlashTok(L) ==
  IF L.LastChar = "/" THEN AfterLineComment(SkipLineComment(L))
  ELSE IF L.LastChar = "*" THEN AfterBlockComment(L.rd, SkipBlockComment(L))
  ELSE Tok("/", L)

\* getTok after the whitespace was skipped
TokAfterWhitespace(L) ==
  IF isalpha(L.LastChar)
  THEN IdentifierTok(ReadIdentifier([L EXCEPT !.IdentifierStr = <<L.LastChar>>]))
  ELSE IF isdigit(L.LastChar) \/ L.LastChar = "."
  THEN NumberTok(ReadNumber(L, <<>>))
  ELSE IF L.LastChar = "/"
  THEN SlashTok(getchar(L))
  ELSE IF L.LastChar = EOF
  THEN Tok(tok_eof, L)
  ELSE Tok(L.LastChar, getchar(L))

getTok(L) == TokAfterWhitespace(SkipWhitespace(L))

\* static int CurTok starts as 0, which is no token getTok returns.
NoToken == "NUL"

LexStart(text) ==
  [in |-> text, rd |-> 0, LastChar |-> " ", IdentifierStr |-> <<>>,
   NumVal |-> strtod(<<>>), CurTok |-> NoToken,
   log |-> <<>>, cmt |-> <<>>, toks |-> <<>>]

\* ------------------------------------------------------------------------
\* The parser.  A parser state P is a lexer state with CurTok; every parse
\* function returns the AST (NullAST for nullptr) and the state it leaves.
\* ------------------------------------------------------------------------

\* What a call of getTok hands its caller: the token, and IdentifierStr or
\* NumVal when the token is one that fills it in.
Lexeme(r) ==
  [tok |-> r.tok,
   id |-> IF r.tok = tok_identifier THEN r.L.IdentifierStr ELSE <<>>,
   num |-> IF r.tok = tok_number THEN r.L.NumVal ELSE strtod(<<>>)]

\* CurTok = getTok(), r being what getTok returned
TokenTaken(r) == [r.L EXCEPT !.CurTok = r.tok, !.toks = @ \o <<Lexeme(r)>>]

getNextToken(P) == TokenTaken(getTok(P))

NullAST == [kind |-> "nullptr"]

NumberExprAST(Val) == [kind |-> "Number", Val |-> Val]

VariableExprAST(Name) == [kind |-> "Variable", Name |-> Name]

BinaryExprAST(Op, LHS, RHS) ==
  [kind |-> "Binary", Op |-> Op, LHS |-> LHS, RHS |-> RHS]

CallExprAST(Callee, Args) == [kind |-> "Call", Callee |-> Callee, Args |-> Args]

PrototypeAST(Name, Args) == [kind |-> "Prototype", Name |-> Name, Args |-> Args]

FunctionAST(Proto, Body) == [kind |-> "Function", Proto |-> Proto, Body |-> Body]

\* fprintf(stderr, "Error: %s\n", Str); return nullptr;
LogError(P, Str) == [ast |-> NullAST, P |-> [P EXCEPT !.log = @ \o <<Str>>]]

\* BinopPrecedence with BinopPrecedence['/'] = 40 installed as well
BinopPrecedenceWithSlash(c) ==
  CASE c = "<" -> 10
    [] c = "+" -> 20
    [] c = "-" -> 20
    [] c = "*" -> 40
    [] c = "/" -> 40
    [] OTHER -> 0

\* main() installs the four operators before the first token is read;
\* BinopPrecedence[c] of any other character is the map's default, 0.
BinopPrecedence(c) ==
  CASE c = "<" -> 10
    [] c = "+" -> 20
    [] c = "-" -> 20
    [] c = "*" -> 40
    [] OTHER -> 0

GetTokPrecedence(P) ==
  IF ~isascii(P.CurTok)
  THEN -1
  ELSE IF BinopPrecedence(P.CurTok) <= 0 THEN -1 ELSE BinopPrecedence(P.CurTok)

RECURSIVE ParseExpression(_)
RECURSIVE ParsePrimary(_)
RECURSIVE ParseBinOpRHS(_, _, _)
RECURSIVE ParseCallArgs(_, _)

Parsed(ast, P) == [ast |-> ast, P |-> P]

ParseNumberExpr(P) == Parsed(NumberExprAST(P.NumVal), getNextToken(P))

\* ParseParenExpr from  if (!V)  on: V is what ParseExpression returned
ParenExprClose(V) ==
  IF V.ast = NullAST
  THEN V
  ELSE IF V.P.CurTok # ")"
       THEN LogError(V.P, "Expected ')'")
       ELSE Parsed(V.ast, getNextToken(V.P))

ParseParenExpr(P) == ParenExprClose(ParseExpression(getNextToken(P)))

ArgsResult(ok, Args, P) == [ok |-> ok, Args |-> Args, P |-> P]

\* One turn of the while (true) loop of ParseIdentifierExpr after
\* ParseExpression returned Arg; the loop leaves with Args complete and
\* CurTok = ')' or with nullptr.
CallArgParsed(Args, Arg) ==
  IF Arg.ast = NullAST
  THEN ArgsResult(FALSE, Args, Arg.P)
  ELSE IF Arg.P.CurTok = ")"
       THEN ArgsResult(TRUE, Args \o <<Arg.ast>>, Arg.P)
       ELSE IF Arg.P.CurTok # ","
            THEN ArgsResult(FALSE, Args \o <<Arg.ast>>,
                   LogError(Arg.P, "Expected ',' or ')' in argument list").P)
            ELSE ParseCallArgs(getNextToken(Arg.P), Args \o <<Arg.ast>>)

ParseCallArgs(P, Args) == CallArgParsed(Args, ParseExpression(P))

\* CallExprClose with the call built of the arguments read so far when the
\* argument loop left with an error
CallExprCloseAnyway(IdName, r) ==
  Parsed(CallExprAST(IdName, r.Args), getNextToken(r.P))

\* ParseIdentifierExpr after the argument loop: eat ')' and build the call
CallExprClose(IdName, r) ==
  IF ~r.ok
  THEN Parsed(NullAST, r.P)
  ELSE Parsed(CallExprAST(IdName, r.Args), getNextToken(r.P))

\* ParseIdentifierExpr after '(' was eaten
CallExprArgs(IdName, P2) ==
  IF P2.CurTok # ")"
  THEN CallExprClose(IdName, ParseCallArgs(P2, <<>>))
  ELSE CallExprClose(IdName, ArgsResult(TRUE, <<>>, P2))

\* ParseIdentifierExpr after the identifier was consumed
IdentifierExprRest(IdName, P1) ==
  IF P1.CurTok # "("
  THEN Parsed(VariableExprAST(IdName), P1)
  ELSE CallExprArgs(IdName, getNextToken(P1))

ParseIdentifierExpr(P) == IdentifierExprRest(P.IdentifierStr, getNextToken(P))

ParsePrimary(P) ==
  CASE P.CurTok = tok_identifier -> ParseIdentifierExpr(P)
    [] P.CurTok = tok_number -> ParseNumberExpr(P)
    [] P.CurTok = "(" -> ParseParenExpr(P)
    [] OTHER -> LogError(P, "Unknown token when expecting an expression")

\* MinPrecForRHS without the + 1: the operators after a tighter one are all
\* taken into the right operand
MinPrecForRHSSame(TokPrec) == TokPrec

\* RHS = ParseBinOpRHS(TokPrec + 1, std::move(RHS)): the least precedence
\* the operators of the right operand have
MinPrecForRHS(TokPrec) == TokPrec + 1

\* if (TokPrec < NextPrec): the pending operator takes RHS as its LHS
TakesRHS(TokPrec, NextPrec) == TokPrec < NextPrec

\* ParseBinOpRHS: merge LHS/RHS and go round the loop again
BinOpMerge(ExprPrec, BinOp, LHS, RHS) ==
  IF RHS.ast = NullAST
  THEN RHS
  ELSE ParseBinOpRHS(ExprPrec, BinaryExprAST(BinOp, LHS, RHS.ast), RHS.P)

\* ParseBinOpRHS after ParsePrimary returned RHS
BinOpRHSParsed(ExprPrec, TokPrec, BinOp, LHS, RHS) ==
  IF RHS.ast = NullAST
  THEN RHS
  ELSE IF TakesRHS(TokPrec, GetTokPrecedence(RHS.P))
       THEN BinOpMerge(ExprPrec, BinOp, LHS,
                       ParseBinOpRHS(MinPrecForRHS(TokPrec), RHS.ast, RHS.P))
       ELSE BinOpMerge(ExprPrec, BinOp, LHS, RHS)

ParseBinOpRHS(ExprPrec, LHS, P) ==
  IF GetTokPrecedence(P) < ExprPrec
  THEN Parsed(LHS, P)
  ELSE BinOpRHSParsed(ExprPrec, GetTokPrecedence(P), P.CurTok, LHS,
                      ParsePrimary(getNextToken(P)))

\* ParseExpression after ParsePrimary returned LHS
ExpressionRest(LHS) ==
  IF LHS.ast = NullAST THEN LHS ELSE ParseBinOpRHS(0, LHS.ast, LHS.P)

ParseExpression(P) == ExpressionRest(ParsePrimary(P))

\* while (getNextToken() == tok_identifier) ArgNames.push_back(IdentifierStr);
RECURSIVE ParseArgNames(_, _)
RECURSIVE ArgNameRead(_, _)
\* ArgNameRead with a ',' between the parentheses read over
ArgNameReadOverCommas(n, ArgNames) ==
  IF n.CurTok = tok_identifier
  THEN ParseArgNames(n, ArgNames \o <<n.IdentifierStr>>)
  ELSE IF n.CurTok = ","
       THEN ParseArgNames(n, ArgNames)
       ELSE [ArgNames |-> ArgNames, P |-> n]

ArgNameRead(n, ArgNames) ==
  IF n.CurTok = tok_identifier
  THEN ParseArgNames(n, ArgNames \o <<n.IdentifierStr>>)
  ELSE [ArgNames |-> ArgNames, P |-> n]

ParseArgNames(P, ArgNames) == ArgNameRead(getNextToken(P), ArgNames)

\* ParsePrototype after the argument names were read
PrototypeClose(FnName, a) ==
  IF a.P.CurTok # ")"
  THEN LogError(a.P, "Expected ')' in prototype")
  ELSE Parsed(PrototypeAST(FnName, a.ArgNames), getNextToken(a.P))

\* ParsePrototype after the function name was consumed
PrototypeArgs(FnName, P1) ==
  IF P1.CurTok # "("
  THEN LogError(P1, "Expected '(' in prototype")
  ELSE PrototypeClose(FnName, ParseArgNames(P1, <<>>))

ParsePrototype(P) ==
  IF P.CurTok # tok_identifier
  THEN LogError(P, "Expected function name in prototype")
  ELSE PrototypeArgs(P.IdentifierStr, getNextToken(P))

\* ParseFunDef / ParseTopLevelExpr after ParseExpression returned E
FunctionASTOf(Proto, E) ==
  IF E.ast # NullAST THEN Parsed(FunctionAST(Proto, E.ast), E.P) ELSE E

\* ParseFunDef after ParsePrototype returned Proto
FunDefBody(Proto) ==
  IF Proto.ast = NullAST
  THEN Proto
  ELSE FunctionASTOf(Proto.ast, ParseExpression(Proto.P))

ParseFunDef(P) == FunDefBody(ParsePrototype(getNextToken(P)))

ParseImport(P) == ParsePrototype(getNextToken(P))

ParseTopLevelExpr(P) ==
  FunctionASTOf(PrototypeAST(<<>>, <<>>), ParseExpression(P))

\* ------------------------------------------------------------------------
\* The LLVM objects the lowering builds.
\*
\* TheModule holds its functions in creation order, the counter LastUnique
\* of its symbol table, and nextId, the identity the next created Function
\* gets (two Function objects never share an id).  A function is named
\* [base, uniq]: uniq = 0 is the plain name, uniq = n is "base.n", the name
\* the symbol table gives a global whose name is taken.  A source identifier
\* holds no '.', so getFunction(Name) finds only uniq = 0.
\*
\* A value is a constant, an argument of a function, the result of an
\* instruction, or nullptr.  The IRBuilder folds an operation on constants
\* to a constant and inserts nothing; the folded constant is kept as the
\* operation applied to its operands.
\* ------------------------------------------------------------------------

NullV == [k |-> "nullptr"]

ConstantFP(v) == [k |-> "const", v |-> v]

Argument(fn, idx) == [k |-> "arg", fn |-> fn, idx |-> idx]

InstValue(fn, block, idx) ==
  [k |-> "inst", fn |-> fn, block |-> block, idx |-> idx]

NoFunction == 0

FnIndex(M, id) == CHOOSE i \in 1..Len(M.fns) : M.fns[i].id = id

HasFn(M, id) == \E i \in 1..Len(M.fns) : M.fns[i].id = id

FnOf(M, id) == M.fns[FnIndex(M, id)]

\* TheModule->getFunction(Name): an unnamed function is in no symbol table
getFunction(M, Name) ==
  IF Name # <<>> /\ \E i \in 1..Len(M.fns) :
                      M.fns[i].name = [base |-> Name, uniq |-> 0]
  THEN M.fns[CHOOSE i \in 1..Len(M.fns) :
               M.fns[i].name = [base |-> Name, uniq |-> 0]].id
  ELSE NoFunction

DigitChar == <<"0", "1", "2", "3", "4", "5", "6", "7", "8", "9">>

RECURSIVE Decimal(_)
Decimal(n) ==
  IF n < 10 THEN <<DigitChar[n + 1]>>
  ELSE Decimal(n \div 10) \o <<DigitChar[(n % 10) + 1]>>

\* Arg.setName(Args[Idx++]) for every argument: a name already taken in the
\* function's symbol table gets the table's next number appended until it
\* is free.
RECURSIVE UniqueArgName(_, _, _)
UniqueArgName(base, taken, LastUnique) ==
  LET cand == base \o Decimal(LastUnique + 1)
  IN  IF cand \in taken
      THEN UniqueArgName(base, taken, LastUnique + 1)
      ELSE [name |-> cand, LastUnique |-> LastUnique + 1]

RECURSIVE SetArgNames(_, _, _)
SetArgNames(Args, done, LastUnique) ==
  IF Len(done) = Len(Args)
  THEN done
  ELSE LET want == Args[Len(done) + 1]
           taken == {done[i] : i \in 1..Len(done)}
       IN  IF want \in taken
           THEN LET u == UniqueArgName(want, taken, LastUnique)
                IN  SetArgNames(Args, done \o <<u.name>>, u.LastUnique)
           ELSE SetArgNames(Args, done \o <<want>>, LastUnique)

\* Function::Create(FT, ExternalLinkage, Name, TheModule.get())
FunctionCreate(M, Name, Args) ==
  LET taken == getFunction(M, Name) # NoFunction
      F == [id |-> M.nextId,
            name |-> [base |-> Name,
                      uniq |-> IF taken THEN M.LastUnique + 1 ELSE 0],
            args |-> Args,
            blocks |-> <<>>]
  IN  [F |-> F.id,
       M |-> [M EXCEPT !.fns = @ \o <<F>>,
                       !.nextId = @ + 1,
                       !.LastUnique = IF taken THEN @ + 1 ELSE @]]

\* A lowering state G is the record of TheModule, NamedValues, the Builder's
\* insertion point (the function whose entry block it appends to), the
\* messages written to stderr, and whether a function was destroyed while
\* an instruction of another function still used it.

LogErrorV(G, Str) == [v |-> NullV, G |-> [G EXCEPT !.log = @ \o <<Str>>]]

\* Builder->Insert: append to the block SetInsertPoint chose, the last block
\* of the function
Insert(G, inst) ==
  LET i == FnIndex(G.M, G.Builder)
      b == Len(G.M.fns[i].blocks)
  IN  [v |-> InstValue(G.Builder, b, Len(G.M.fns[i].blocks[b]) + 1),
       G |-> [G EXCEPT !.M.fns[i].blocks[b] = @ \o <<inst>>]]

CreateBinOp(op, L, R, G, at) ==
  IF L.k = "const" /\ R.k = "const"
  THEN [v |-> ConstantFP([op |-> op, l |-> L.v, r |-> R.v]), G |-> G]
  ELSE Insert(G, [op |-> op, l |-> L, r |-> R, at |-> at])

CreateUIToFP(V, G, at) ==
  IF V.k = "const"
  THEN [v |-> ConstantFP([op |-> "uitofp", l |-> V.v]), G |-> G]
  ELSE Insert(G, [op |-> "uitofp", l |-> V, at |-> at])

RECURSIVE codegen(_, _, _)
RECURSIVE CallArgsCodegen(_, _, _, _)

Lowered(v, G) == [v |-> v, G |-> G]

NumberCodegen(e, G) == Lowered(ConstantFP(e.Val), G)

\* Value *V = NamedValues[Name]: operator[] adds a missing name with nullptr
VariableCodegen(e, G) ==
  IF e.Name \in DOMAIN G.NamedValues
  THEN IF G.NamedValues[e.Name] = NullV
       THEN LogErrorV(G, "Unknown Variable name")
       ELSE Lowered(G.NamedValues[e.Name], G)
  ELSE LogErrorV([G EXCEPT !.NamedValues = @ @@ (e.Name :> NullV)],
                 "Unknown Variable name")

\* L = Builder->CreateFCmpULT(L, R, "cmptmp"); return Builder->CreateUIToFP(L, ...)
CompareToDouble(c, at) == CreateUIToFP(c.v, c.G, at)

\* BinaryEmit with the  case '*':  of the switch left out
BinaryEmitNoMul(Op, L, R, at) ==
  IF L = NullV \/ R.v = NullV
  THEN Lowered(NullV, R.G)
  ELSE CASE Op = "+" -> CreateBinOp("fadd", L, R.v, R.G, at)
         [] Op = "-" -> CreateBinOp("fsub", L, R.v, R.G, at)
         [] Op = "<" ->
              CompareToDouble(CreateBinOp("fcmp ult", L, R.v, R.G, at), at)
         [] OTHER -> LogErrorV(R.G, "invalid binary operator")

\* BinaryExprAST::codegen from  if (!L || !R)  on
BinaryEmit(Op, L, R, at) ==
  IF L = NullV \/ R.v = NullV
  THEN Lowered(NullV, R.G)
  ELSE CASE Op = "+" -> CreateBinOp("fadd", L, R.v, R.G, at)
         [] Op = "-" -> CreateBinOp("fsub", L, R.v, R.G, at)
         [] Op = "*" -> CreateBinOp("fmul", L, R.v, R.G, at)
         [] Op = "<" ->
              CompareToDouble(CreateBinOp("fcmp ult", L, R.v, R.G, at), at)
         [] OTHER -> LogErrorV(R.G, "invalid binary operator")

\* Value *R = RHS->codegen(), L being what LHS->codegen() returned
BinaryRight(e, L, at) ==
  BinaryEmit(e.Op, L.v, codegen(e.RHS, L.G, at \o <<2>>), at)

\* BinaryCodegen with RHS->codegen() run before LHS->codegen()
BinaryCodegenRightFirst(e, G, at) ==
  LET R == codegen(e.RHS, G, at \o <<2>>)
      L == codegen(e.LHS, R.G, at \o <<1>>)
  IN  BinaryEmit(e.Op, L.v, Lowered(R.v, L.G), at)

BinaryCodegen(e, G, at) == BinaryRight(e, codegen(e.LHS, G, at \o <<1>>), at)

ArgsLowered(ok, ArgsV, G) == [ok |-> ok, ArgsV |-> ArgsV, G |-> G]

\* ArgsV.push_back(Args[i]->codegen()); if (!ArgsV.back()) return nullptr;
CallArgLowered(Args, ArgsV, a, at) ==
  IF a.v = NullV
  THEN ArgsLowered(FALSE, ArgsV, a.G)
  ELSE CallArgsCodegen(Args, ArgsV \o <<a.v>>, a.G, at)

\* for (unsigned i = 0, e = Args.size(); i != e; ++i)
CallArgsCodegen(Args, ArgsV, G, at) ==
  IF Len(ArgsV) = Len(Args)
  THEN ArgsLowered(TRUE, ArgsV, G)
  ELSE CallArgLowered(Args, ArgsV,
         codegen(Args[Len(ArgsV) + 1], G, at \o <<Len(ArgsV) + 1>>), at)

\* return Builder->CreateCall(CalleeF, ArgsV, "calltmp");
CallEmit(CalleeF, a, at) ==
  IF ~a.ok
  THEN Lowered(NullV, a.G)
  ELSE Insert(a.G, [op |-> "call", callee |-> CalleeF, args |-> a.ArgsV,
                    at |-> at])

\* ArityMismatch with the check left out
ArityMismatchNever(CalleeArgs, Args) == FALSE

\* if (CalleeF->arg_size() != Args.size())
ArityMismatch(CalleeArgs, Args) == Len(CalleeArgs) # Len(Args)

\* CallCodegen in a module that does not hold the function being built
\* yet: its signature is registered only after the body
CallCodegenBodyFirst(e, G, at) ==
  IF \/ getFunction(G.M, e.Callee) = NoFunction
     \/ getFunction(G.M, e.Callee) = G.Builder
  THEN LogErrorV(G, "Unkown Function referenced")
  ELSE IF ArityMismatch(FnOf(G.M, getFunction(G.M, e.Callee)).args, e.Args)
  THEN LogErrorV(G, "Incorrect number of arguments passed into function call")
  ELSE CallEmit(getFunction(G.M, e.Callee),
                CallArgsCodegen(e.Args, <<>>, G, at), at)

\* Function *CalleeF = TheModule->getFunction(Callee); if (!CalleeF) ...
CallCodegen(e, G, at) ==
  IF getFunction(G.M, e.Callee) = NoFunction
  THEN LogErrorV(G, "Unkown Function referenced")
  ELSE IF ArityMismatch(FnOf(G.M, getFunction(G.M, e.Callee)).args, e.Args)
  THEN LogErrorV(G, "Incorrect number of arguments passed into function call")
  ELSE CallEmit(getFunction(G.M, e.Callee),
                CallArgsCodegen(e.Args, <<>>, G, at), at)

\* Value *ExprAST::codegen(), dispatched on the node's class; `at` is the
\* node's place in the body (the path of child numbers from the root), kept
\* in every instruction the node inserts.
codegen(e, G, at) ==
  CASE e.kind = "Number" -> NumberCodegen(e, G)
    [] e.kind = "Variable" -> VariableCodegen(e, G)
    [] e.kind = "Binary" -> BinaryCodegen(e, G, at)
    [] e.kind = "Call" -> CallCodegen(e, G, at)

Made(F, G) == [F |-> F, G |-> G]

\* Function::Create made c; the arguments were named in it
PrototypeMade(c, G) == Made(c.F, [G EXCEPT !.M = c.M])

PrototypeCodegen(Proto, G) ==
  PrototypeMade(
    FunctionCreate(G.M, Proto.Name, SetArgNames(Proto.Args, <<>>, 0)), G)

\* Does an instruction of a function other than id call id?
UsedElsewhere(M, id) ==
  \E i \in 1..Len(M.fns) :
    /\ M.fns[i].id # id
    /\ \E b \in 1..Len(M.fns[i].blocks) :
         \E j \in 1..Len(M.fns[i].blocks[b]) :
           /\ M.fns[i].blocks[b][j].op = "call"
           /\ M.fns[i].blocks[b][j].callee = id

\* F->eraseFromParent(): unlink F from the module and destroy it.  Destroying
\* a function that an instruction elsewhere still uses is undefined.
eraseFromParent(G, id) ==
  [G EXCEPT !.M.fns = SelectSeq(@, LAMBDA f : f.id # id),
            !.undefined = @ \/ UsedElsewhere(G.M, id)]

\* ClearNamedValues with the clear() left out
KeepNamedValues(NV) == NV

\* NamedValues.clear();
ClearNamedValues(NV) == << >>

\* for (auto &Arg : TheFunction->args())
\*   NamedValues[std::string(Arg.getName())] = &Arg;
RecordArguments(F) ==
  [n \in {F.args[i] : i \in 1..Len(F.args)} |->
     Argument(F.id, CHOOSE i \in 1..Len(F.args) : F.args[i] = n)]

\* Function *TheFunction = TheModule->getFunction(Proto->getName());
\* if (!TheFunction) TheFunction = Proto->codegen();
FunctionForDefinition(Fn, G) ==
  IF getFunction(G.M, Fn.Proto.Name) # NoFunction
  THEN Made(getFunction(G.M, Fn.Proto.Name), G)
  ELSE PrototypeCodegen(Fn.Proto, G)

\* BasicBlock::Create(*TheContext, "entry", TheFunction);
\* Builder->SetInsertPoint(BB); and NamedValues recorded
EnterFunction(G, F) ==
  [G EXCEPT !.M.fns[FnIndex(G.M, F)].blocks = @ \o <<<<>>>>,
            !.Builder = F,
            !.NamedValues = RecordArguments(FnOf(G.M, F)) @@ ClearNamedValues(@)]

\* BodyFailed with the eraseFromParent() left out
BodyFailedKeepsFunction(G, F) == G

\* The end of FunctionAST::codegen when the body did not lower
BodyFailed(G, F) == eraseFromParent(G, F)

\* FunctionAST::codegen after Body->codegen() returned RetVal
FinishFunction(TheFunction, RetVal) ==
  IF RetVal.v # NullV
  THEN Made(TheFunction, Insert(RetVal.G, [op |-> "ret", l |-> RetVal.v]).G)
  ELSE Made(NoFunction, BodyFailed(RetVal.G, TheFunction))

\* empty with the answer always yes: the redefinition check never fires
emptyAlways(F) == TRUE

\* TheFunction->empty(): the function has no basic block
empty(F) == F.blocks = <<>>

\* FunctionAST::codegen from  if (!TheFunction->empty())  on
DefineFunction(Fn, t) ==
  IF ~empty(FnOf(t.G.M, t.F))
  THEN Made(NoFunction, LogErrorV(t.G, "Function cannot be redefined").G)
  ELSE FinishFunction(t.F, codegen(Fn.Body, EnterFunction(t.G, t.F), <<>>))

FunctionCodegen(Fn, G) == DefineFunction(Fn, FunctionForDefinition(Fn, G))

\* ------------------------------------------------------------------------
\* The driver: main() primes the first token and makes the module, then
\* MainLoop dispatches on CurTok until it is tok_eof.
\* ------------------------------------------------------------------------

\* The parser state and the lowering state held by the variables
ParserNow ==
  [in |-> stdin, rd |-> rd, LastChar |-> LastChar,
   IdentifierStr |-> IdentifierStr, NumVal |-> NumVal, CurTok |-> CurTok,
   log |-> <<>>, cmt |-> comments, toks |-> tokens]

LoweringNow ==
  [M |-> TheModule, NamedValues |-> NamedValues, Builder |-> Builder,
   log |-> <<>>, undefined |-> FALSE]

SetParser(P) ==
  /\ rd' = P.rd
  /\ LastChar' = P.LastChar
  /\ IdentifierStr' = P.IdentifierStr
  /\ NumVal' = P.NumVal
  /\ CurTok' = P.CurTok
  /\ tokens' = P.toks
  /\ comments' = P.cmt

SetLowering(G) ==
  /\ TheModule' = G.M
  /\ NamedValues' = G.NamedValues
  /\ Builder' = G.Builder

\* After undefined behaviour the process may go on or die.
AfterLowering(G) ==
  IF G.undefined THEN pc' \in {"loop", "aborted"} ELSE pc' = "loop"

NoIR == [id |-> NoFunction]

\* What a handler did: the AST its parse returned, the function its
\* codegen() returned and printed, the messages it wrote to stderr, and the
\* module's functions, the defined names and the number of tokens read as
\* they were before it.
Report(handler, ast, F, ir, log, before) ==
  [handler |-> handler, ast |-> ast, ret |-> F, ir |-> ir, log |-> log,
   before |-> before, defined |-> defined, from |-> Len(tokens)]

NothingYet ==
  [handler |-> "none", ast |-> NullAST, ret |-> NoFunction, ir |-> NoIR,
   log |-> <<>>, before |-> <<>>, defined |-> {}, from |-> 0]

\* InitializeModule()
InitializeModule == [fns |-> <<>>, LastUnique |-> 0, nextId |-> 1]

\* main(): getNextToken(); InitializeModule();
Primed(P) ==
  /\ SetParser(P)
  /\ last' = Report("prime", NullAST, NoFunction, NoIR, P.log, <<>>)
  /\ UNCHANGED defined

Prime ==
  /\ pc = "prime"
  /\ \E P \in {getNextToken(ParserNow)} : Primed(P)
  /\ TheModule' = InitializeModule
  /\ pc' = "loop"
  /\ UNCHANGED <<stdin, NamedValues, Builder, probe>>

\* case tok_eof: return;  then main() prints the module and returns
LoopEof ==
  /\ pc = "loop"
  /\ CurTok = tok_eof
  /\ pc' = "done"
  /\ last' = Report("eof", NullAST, NoFunction, NoIR, <<>>, TheModule.fns)
  /\ UNCHANGED <<stdin, rd, LastChar, IdentifierStr, NumVal, CurTok,
                 TheModule, NamedValues, Builder, tokens, comments, defined,
                 probe>>

\* getNextToken() as all a handler does to the state: P is what it left
TokenSkipped(handler, P) ==
  /\ SetParser(P)
  /\ pc' = "loop"
  /\ last' = Report(handler, NullAST, NoFunction, NoIR, P.log, TheModule.fns)
  /\ UNCHANGED <<TheModule, NamedValues, Builder, defined>>

\* ParseFailed with the getNextToken() of the error recovery left out
ParseFailedNoSkip(handler, r) == TokenSkipped(handler, r.P)

\* The parse returned nullptr: skip token for error recovery.
ParseFailed(handler, r) ==
  \E P \in {getNextToken(r.P)} : TokenSkipped(handler, P)

\* case ';': getNextToken();
LoopSemicolon ==
  /\ pc = "loop"
  /\ CurTok = ";"
  /\ \E P \in {getNextToken(ParserNow)} : TokenSkipped("semicolon", P)
  /\ UNCHANGED <<stdin, probe>>

\* The parse returned r.ast, codegen() returned FnIR, and the handler leaves
\* the lowering state G; what it prints is the function as codegen left it.
HandlerDone(handler, r, FnIR, G) ==
  /\ SetParser(r.P)
  /\ SetLowering(G)
  /\ AfterLowering(G)
  /\ last' = Report(handler, r.ast, FnIR.F,
                    IF FnIR.F # NoFunction THEN FnOf(FnIR.G.M, FnIR.F) ELSE NoIR,
                    r.P.log \o FnIR.G.log, TheModule.fns)
  /\ defined' = IF handler = "definition" /\ FnIR.F # NoFunction
                THEN defined \cup {r.ast.Proto.Name}
                ELSE defined

DefinitionLowered(FnAST, FnIR) == HandlerDone("definition", FnAST, FnIR, FnIR.G)

DefinitionParsed(FnAST) ==
  IF FnAST.ast # NullAST
  THEN \E FnIR \in {FunctionCodegen(FnAST.ast, LoweringNow)} :
         DefinitionLowered(FnAST, FnIR)
  ELSE ParseFailed("definition", FnAST)

\* case tok_fun: HandleDefinition();
HandleDefinition ==
  /\ pc = "loop"
  /\ CurTok = tok_fun
  /\ \E FnAST \in {ParseFunDef(ParserNow)} : DefinitionParsed(FnAST)
  /\ UNCHANGED <<stdin, probe>>

ExternLowered(ProtoAST, FnIR) == HandlerDone("extern", ProtoAST, FnIR, FnIR.G)

ExternParsed(ProtoAST) ==
  IF ProtoAST.ast # NullAST
  THEN \E FnIR \in {PrototypeCodegen(ProtoAST.ast, LoweringNow)} :
         ExternLowered(ProtoAST, FnIR)
  ELSE ParseFailed("extern", ProtoAST)

\* case tok_imp: HandleExtern();
HandleExtern ==
  /\ pc = "loop"
  /\ CurTok = tok_imp
  /\ \E ProtoAST \in {ParseImport(ParserNow)} : ExternParsed(ProtoAST)
  /\ UNCHANGED <<stdin, probe>>

\* Remove the anonymous expression: FnIR->eraseFromParent();
ExpressionLowered(FnAST, FnIR) ==
  \E G \in {IF FnIR.F # NoFunction
             THEN eraseFromParent(FnIR.G, FnIR.F)
             ELSE FnIR.G} :
    HandlerDone("expression", FnAST, FnIR, G)

ExpressionParsed(FnAST) ==
  IF FnAST.ast # NullAST
  THEN \E FnIR \in {FunctionCodegen(FnAST.ast, LoweringNow)} :
         ExpressionLowered(FnAST, FnIR)
  ELSE ParseFailed("expression", FnAST)

\* default: HandleTopLevelExpression();
HandleTopLevelExpression ==
  /\ pc = "loop"
  /\ CurTok \notin {tok_eof, ";", tok_fun, tok_imp}
  /\ \E FnAST \in {ParseTopLevelExpr(ParserNow)} : ExpressionParsed(FnAST)
  /\ UNCHANGED <<stdin, probe>>

\* The state before main() runs, reading `text` from standard input
Start(text) ==
  /\ stdin = text
  /\ rd = 0
  /\ LastChar = " "
  /\ IdentifierStr = <<>>
  /\ NumVal = strtod(<<>>)
  /\ CurTok = NoToken
  /\ TheModule = InitializeModule
  /\ NamedValues = << >>
  /\ Builder = NoFunction
  /\ tokens = <<>>
  /\ comments = <<>>
  /\ defined = {}
  /\ last = NothingYet

\* ------------------------------------------------------------------------
\* Spec: main() run on a program of up to MaxConstructs top-level
\* constructs, each drawn from Vocabulary and separated by one space.
\* ------------------------------------------------------------------------

RECURSIVE Join(_)
Join(texts) ==
  IF texts = <<>> THEN <<>>
  ELSE IF Len(texts) = 1 THEN texts[1]
  ELSE texts[1] \o <<" ">> \o Join(Tail(texts))

ImportText(proto) == <<"i", "m", "p", "o", "r", "t", " ">> \o proto

DefText(proto, body) == <<"f", "n", " ">> \o proto \o <<" ">> \o body

Vocabulary ==
  { ImportText(<<"f", "(", "a", ")">>),
    ImportText(<<"f", "(", "a", " ", "b", ")">>),
    ImportText(<<"g", "(", ")">>),
    DefText(<<"f", "(", "x", ")">>, <<"x">>),
    DefText(<<"f", "(", "a", ")">>, <<"a">>),
    DefText(<<"f", "(", "x", ")">>, <<"f", "(", "x", ")">>),
    DefText(<<"f", "(", "x", ")">>, <<"y">>),
    DefText(<<"g", "(", ")">>, <<"1">>),
    DefText(<<"g", "(", ")">>, <<"f", "(", "1", ")">>),
    DefText(<<"g", "(", "x", ")">>,
            <<"f", "(", "x", "*", "x", ",", "x", "+", "1", ")", "-", "x",
              "*", "x">>),
    <<"f", "(", "1", ")", ";">>,
    <<"f", "(", "1", ",", "2", ")">>,
    <<"x">> }

Init ==
  /\ \E n \in 0..MaxConstructs :
       \E cs \in [1..n -> Vocabulary] : Start(Join(cs))
  /\ pc = "prime"
  /\ probe = [kind |-> "program"]

Next ==
  \/ Prime
  \/ LoopEof
  \/ LoopSemicolon
  \/ HandleDefinition
  \/ HandleExtern
  \/ HandleTopLevelExpression

Spec == Init /\ [][Next]_vars

\* ------------------------------------------------------------------------
\* SpecExpr: main() run on one expression of up to MaxOps binary operators.
\* The primaries are numbers, variables, calls or parenthesised numbers, the
\* i-th one spelled with the i-th digit or letter so that no two are equal.
\* ------------------------------------------------------------------------

BinaryOperators == {"<", "+", "-", "*"}

PrimaryStyles == {"number", "variable", "call", "paren"}

Letters == <<"a", "b", "c", "d", "e", "g", "h">>

PrimaryText(style, i) ==
  CASE style = "number" -> <<DigitChar[i + 1]>>
    [] style = "variable" -> <<Letters[i]>>
    [] style = "call" -> <<Letters[i], "(", ")">>
    [] style = "paren" -> <<"(", DigitChar[i + 1], ")">>

RECURSIVE ExprText(_, _, _)
ExprText(style, ops, i) ==
  IF i > Len(ops) + 1 THEN <<>>
  ELSE PrimaryText(style, i)
       \o (IF i <= Len(ops) THEN <<ops[i]>> ELSE <<>>)
       \o ExprText(style, ops, i + 1)

InitExpr ==
  /\ \E n \in 0..MaxOps :
       \E ops \in [1..n -> BinaryOperators] :
         \E style \in PrimaryStyles :
           /\ Start(ExprText(style, ops, 1))
           /\ probe = [kind |-> "expression", style |-> style, ops |-> ops]
  /\ pc = "prime"

NextExpr ==
  \/ Prime
  \/ HandleTopLevelExpression
  \/ LoopEof

SpecExpr == InitExpr /\ [][NextExpr]_vars

\* ------------------------------------------------------------------------
\* SpecLex: getNextToken() called again and again on a text that holds one
\* comment: pre, the comment, post.
\* ------------------------------------------------------------------------

RECURSIVE SeqsUpTo(_, _)
SeqsUpTo(S, n) ==
  IF n = 0 THEN {<<>>}
  ELSE LET shorter == SeqsUpTo(S, n - 1)
       IN  shorter \cup {s \o <<c>> : s \in shorter, c \in S}

AroundAlphabet == {"1", "+", " "}

BodyAlphabet == {"c", "*", "/"}

CommentStyles == {"line-nl", "line-cr", "line-eof", "block", "block-open"}

CommentText(style, body) ==
  CASE style = "line-nl" -> <<"/", "/">> \o body \o <<"\n">>
    [] style = "line-cr" -> <<"/", "/">> \o body \o <<"\r">>
    [] style = "line-eof" -> <<"/", "/">> \o body
    [] style = "block" -> <<"/", "*">> \o body \o <<"*", "/">>
    [] style = "block-open" -> <<"/", "*">> \o body

\* The comment stands between two tokens: it does not split a number.
IsWordChar(c) == isalnum(c) \/ c = "."

Boundary(pre, post) ==
  IF pre = <<>> \/ post = <<>>
  THEN TRUE
  ELSE ~(IsWordChar(pre[Len(pre)]) /\ IsWordChar(post[1]))

InitLex ==
  /\ \E pre \in SeqsUpTo(AroundAlphabet, MaxAround) :
       \E post \in SeqsUpTo(AroundAlphabet, MaxAround) :
         \E body \in SeqsUpTo(BodyAlphabet, MaxBody) :
           \E style \in CommentStyles :
             /\ Boundary(pre, post)
             /\ style \in {"line-eof", "block-open"} => post = <<>>
             /\ Start(pre \o CommentText(style, body) \o post)
             /\ probe = [kind |-> "comment", style |-> style, pre |-> pre,
                         body |-> body, post |-> post]
  /\ pc = "lex"

\* One more call of getNextToken(); calls go on after tok_eof.
TokenRead(P) ==
  /\ SetParser(P)
  /\ last' = Report("token", NullAST, NoFunction, NoIR, P.log, <<>>)
  /\ UNCHANGED defined

NextToken ==
  /\ pc = "lex"
  /\ Len(tokens) < Len(stdin) + 2
  /\ \E P \in {getNextToken(ParserNow)} : TokenRead(P)
  /\ UNCHANGED <<stdin, TheModule, NamedValues, Builder, pc, probe>>

SpecLex == InitLex /\ [][NextToken]_vars

\* ------------------------------------------------------------------------
\* SpecSpace: getNextToken() called over and over on an input of up to
\* MaxSpaces whitespace characters.  SpecChars: the same on an input of up
\* to MaxChars characters of a number, an identifier or a blank.
\* ------------------------------------------------------------------------

Whitespace == {" ", "\t", "\n", "\r", "\f"}

InitSpace ==
  /\ \E text \in SeqsUpTo(Whitespace, MaxSpaces) : Start(text)
  /\ probe = [kind |-> "whitespace"]
  /\ pc = "lex"

SpecSpace == InitSpace /\ [][NextToken]_vars

NumberAlphabet == {" ", "1", "2", ".", "a"}

InitChars ==
  /\ \E text \in SeqsUpTo(NumberAlphabet, MaxChars) : Start(text)
  /\ probe = [kind |-> "characters"]
  /\ pc = "lex"

SpecChars == InitChars /\ [][NextToken]_vars

\* ------------------------------------------------------------------------
\* SpecTok: main() run on any sequence of up to MaxToks lexemes, after
\* nothing, fn or import, the lexemes separated by one space or by nothing.
\* ------------------------------------------------------------------------

Lexemes == {"f", "1", "(", ")", "+", "/", ";"}

Starters == {<<>>, <<"f", "n">>, <<"i", "m", "p", "o", "r", "t">>}

Separators == {<<" ">>, <<>>}

RECURSIVE JoinWith(_, _)
JoinWith(lexemes, sep) ==
  IF lexemes = <<>> THEN <<>>
  ELSE IF Len(lexemes) = 1 THEN <<lexemes[1]>>
  ELSE <<lexemes[1]>> \o sep \o JoinWith(Tail(lexemes), sep)

InitTok ==
  /\ \E n \in 0..MaxToks :
       \E lexemes \in [1..n -> Lexemes] :
         \E starter \in Starters :
           \E sep \in Separators :
             /\ Start(starter \o <<" ">> \o JoinWith(lexemes, sep))
             /\ probe = [kind |-> "tokens", starter |-> starter,
                         lexemes |-> lexemes, sep |-> sep]
  /\ pc = "prime"

SpecTok == InitTok /\ [][Next]_vars

\* main() has a step to take: Prime when pc = "prime", and in MainLoop the
\* case of the switch that CurTok selects.  Running is ENABLED <<Next>>_vars.
Running == pc \in {"prime", "loop"}

\* main() is one thread that nothing suspends: while it has a step to take
\* it takes one.  This is WF_vars(Next) with Running for ENABLED <<Next>>_vars.
SpecTokFair == SpecTok /\ (<>[]Running => []<><<Next>>_vars)

\* ------------------------------------------------------------------------
\* SpecProto: main() run on fn or import and up to MaxProtoToks lexemes of
\* the kinds a prototype is made of, separated by one space.
\* ------------------------------------------------------------------------

ProtoLexemes == {"f", "x", "(", ")", ","}

ProtoStarters == {<<"f", "n">>, <<"i", "m", "p", "o", "r", "t">>}

InitProto ==
  /\ \E n \in 0..MaxProtoToks :
       \E lexemes \in [1..n -> ProtoLexemes] :
         \E starter \in ProtoStarters :
           /\ Start(starter \o <<" ">> \o JoinWith(lexemes, <<" ">>))
           /\ probe = [kind |-> "prototype", starter |-> starter,
                       lexemes |-> lexemes]
  /\ pc = "prime"

NextProto ==
  \/ Prime
  \/ HandleDefinition
  \/ HandleExtern
  \/ HandleTopLevelExpression
  \/ LoopEof

SpecProto == InitProto /\ [][NextProto]_vars

\* ------------------------------------------------------------------------
\* Properties
\* ------------------------------------------------------------------------

\* The reference precedence grammar
\*   e10 ::= e20 ('<' e20)*    e20 ::= e40 (('+' | '-') e40)*
\*   e40 ::= primary ('*' primary)*
\* with every level grouping left to right: the root of an expression is its
\* rightmost operator of the lowest precedence.
GrammarLevel(op) ==
  CASE op = "<" -> 1
    [] op \in {"+", "-"} -> 2
    [] op = "*" -> 3

PrimaryAST(style, i) ==
  CASE style = "number" -> NumberExprAST(strtod(<<DigitChar[i + 1]>>))
    [] style = "variable" -> VariableExprAST(<<Letters[i]>>)
    [] style = "call" -> CallExprAST(<<Letters[i]>>, <<>>)
    [] style = "paren" -> NumberExprAST(strtod(<<DigitChar[i + 1]>>))

\* the root operator of primaries lo..hi: operator k stands after primary k
RootOperator(ops, lo, hi) ==
  CHOOSE k \in lo..(hi - 1) :
    /\ \A j \in lo..(hi - 1) : GrammarLevel(ops[k]) <= GrammarLevel(ops[j])
    /\ \A j \in (k + 1)..(hi - 1) : GrammarLevel(ops[k]) < GrammarLevel(ops[j])

RECURSIVE GrammarAST(_, _, _, _)
GrammarAST(style, ops, lo, hi) ==
  IF lo = hi
  THEN PrimaryAST(style, lo)
  ELSE BinaryExprAST(ops[RootOperator(ops, lo, hi)],
         GrammarAST(style, ops, lo, RootOperator(ops, lo, hi)),
         GrammarAST(style, ops, RootOperator(ops, lo, hi) + 1, hi))

\* C1: the expression ParseExpression returns for primaries joined by the
\* operators * + - < is the AST of the reference precedence grammar, and the
\* whole expression is consumed.
C1_PrecedenceClimbing ==
  (probe.kind = "expression" /\ last.handler = "expression") =>
    /\ last.ast # NullAST
    /\ last.ast.Body = GrammarAST(probe.style, probe.ops, 1, Len(probe.ops) + 1)
    /\ CurTok = tok_eof

\* 1-2-3*4 was parsed as (1-2)-(3*4)
C1_Witness ==
  /\ probe.kind = "expression"
  /\ last.handler = "expression"
  /\ probe.ops = <<"-", "-", "*">>
  /\ probe.style = "number"
  /\ last.ast.Body.Op = "-"
  /\ last.ast.Body.LHS.kind = "Binary"
  /\ last.ast.Body.LHS.Op = "-"
  /\ last.ast.Body.RHS.kind = "Binary"
  /\ last.ast.Body.RHS.Op = "*"

\* --- what the properties of the lowering speak of ---

PlainName(name) == [base |-> name, uniq |-> 0]

\* the module's functions `fns` hold a function named `name`
IsDeclared(fns, name) ==
  name # <<>> /\ \E i \in 1..Len(fns) : fns[i].name = PlainName(name)

FnNamed(fns, name) ==
  fns[CHOOSE i \in 1..Len(fns) : fns[i].name = PlainName(name)]

HasBody(F) == F.blocks # <<>>

\* every block of F ends in a return
Complete(F) ==
  /\ F.blocks # <<>>
  /\ \A b \in 1..Len(F.blocks) :
       /\ F.blocks[b] # <<>>
       /\ F.blocks[b][Len(F.blocks[b])].op = "ret"

RECURSIVE VarsOf(_)
VarsOf(e) ==
  CASE e.kind = "Number" -> {}
    [] e.kind = "Variable" -> {e.Name}
    [] e.kind = "Binary" -> VarsOf(e.LHS) \cup VarsOf(e.RHS)
    [] e.kind = "Call" -> UNION {VarsOf(e.Args[i]) : i \in 1..Len(e.Args)}

RECURSIVE CalleesOf(_)
CalleesOf(e) ==
  CASE e.kind = "Number" -> {}
    [] e.kind = "Variable" -> {}
    [] e.kind = "Binary" -> CalleesOf(e.LHS) \cup CalleesOf(e.RHS)
    [] e.kind = "Call" ->
         {e.Callee} \cup UNION {CalleesOf(e.Args[i]) : i \in 1..Len(e.Args)}

\* The body e is valid for a definition with prototype Proto in a module
\* holding fns: it names only parameters of Proto, and it calls only
\* declared functions, or the function being defined, with as many
\* arguments as they have parameters.
RECURSIVE ValidBody(_, _, _)
ValidBody(e, Proto, fns) ==
  CASE e.kind = "Number" -> TRUE
    [] e.kind = "Variable" -> e.Name \in Range(Proto.Args)
    [] e.kind = "Binary" ->
         /\ e.Op \in BinaryOperators
         /\ ValidBody(e.LHS, Proto, fns)
         /\ ValidBody(e.RHS, Proto, fns)
    [] e.kind = "Call" ->
         /\ IF e.Callee = Proto.Name
            THEN Len(e.Args) = Len(Proto.Args)
            ELSE /\ IsDeclared(fns, e.Callee)
                 /\ Len(e.Args) = Len(FnNamed(fns, e.Callee).args)
         /\ \A i \in 1..Len(e.Args) : ValidBody(e.Args[i], Proto, fns)

\* the functions the module holds and the one the last handler printed
FunctionsSeen ==
  Range(TheModule.fns) \cup (IF last.ir = NoIR THEN {} ELSE {last.ir})

\* the values an instruction reads
Operands(inst) ==
  CASE inst.op = "call" -> Range(inst.args)
    [] inst.op \in {"ret", "uitofp"} -> {inst.l}
    [] OTHER -> {inst.l, inst.r}

\* C2: once f has been defined with success, lowering another definition
\* of f reports the redefinition error, returns no function and leaves the
\* module, f's first definition with it, as it was.
C2_RedefinitionRejected ==
  (/\ last.handler = "definition"
   /\ last.ast # NullAST
   /\ last.ast.Proto.Name \in last.defined) =>
    /\ last.ret = NoFunction
    /\ "Function cannot be redefined" \in Range(last.log)
    /\ IsDeclared(last.before, last.ast.Proto.Name)
    /\ HasBody(FnNamed(last.before, last.ast.Proto.Name))
    /\ TheModule.fns = last.before

\* a second definition of a defined f was refused, an import of f or another
\* construct standing between the two
C2_Witness ==
  /\ last.handler = "definition"
  /\ last.ast # NullAST
  /\ last.ast.Proto.Name \in last.defined
  /\ last.ret = NoFunction
  /\ Len(last.before) >= 2
  /\ Complete(FnNamed(TheModule.fns, last.ast.Proto.Name))

\* C3: a definition of f, declared before by an import and without a body,
\* whose body is valid lowers with success into the declared function object
\* and leaves it with a body that ends in a return.
C3_DeclarationThenDefinition ==
  (/\ last.handler = "definition"
   /\ last.ast # NullAST
   /\ IsDeclared(last.before, last.ast.Proto.Name)
   /\ ~HasBody(FnNamed(last.before, last.ast.Proto.Name))
   /\ ValidBody(last.ast.Body, last.ast.Proto, last.before)) =>
    /\ last.ret = FnNamed(last.before, last.ast.Proto.Name).id
    /\ Len(TheModule.fns) = Len(last.before)
    /\ Complete(last.ir)

\* an argument of a call that lowers: a number, or a variable of the
\* environment the function was lowered in
ArgumentLowers(a) ==
  \/ a.kind = "Number"
  \/ /\ a.kind = "Variable"
     /\ a.Name \in DOMAIN NamedValues
     /\ NamedValues[a.Name] # NullV

CallsIn(F) ==
  {j \in 1..Len(F.blocks[Len(F.blocks)]) :
     F.blocks[Len(F.blocks)][j].op = "call"}

\* C4: a call of a declared function with a number of arguments other than
\* the number of its parameters fails with the arity error; with the same
\* number, and arguments that lower, it is lowered to one call instruction.
C4_CallArity ==
  (/\ last.handler \in {"definition", "expression"}
   /\ last.ast # NullAST
   /\ last.ast.Proto.Name \notin last.defined
   /\ last.ast.Body.kind = "Call"
   /\ IsDeclared(last.before, last.ast.Body.Callee)) =>
    IF Len(last.ast.Body.Args) # Len(FnNamed(last.before, last.ast.Body.Callee).args)
    THEN /\ last.ret = NoFunction
         /\ "Incorrect number of arguments passed into function call"
              \in Range(last.log)
    ELSE (\A i \in 1..Len(last.ast.Body.Args) :
            ArgumentLowers(last.ast.Body.Args[i])) =>
           /\ last.ret # NoFunction
           /\ Cardinality(CallsIn(last.ir)) = 1
           /\ \A j \in CallsIn(last.ir) :
                /\ last.ir.blocks[Len(last.ir.blocks)][j].callee
                     = FnNamed(last.before, last.ast.Body.Callee).id
                /\ Len(last.ir.blocks[Len(last.ir.blocks)][j].args)
                     = Len(last.ast.Body.Args)

\* f(1) was refused for an f declared with two parameters
C4_Witness ==
  /\ last.handler = "expression"
  /\ last.ast # NullAST
  /\ last.ast.Body.kind = "Call"
  /\ IsDeclared(last.before, last.ast.Body.Callee)
  /\ Len(last.ast.Body.Args) = 1
  /\ Len(FnNamed(last.before, last.ast.Body.Callee).args) = 2
  /\ last.ret = NoFunction

\* the body names a variable the environment does not hold
NamesUnknownVariable(e) ==
  \E n \in VarsOf(e) : n \notin DOMAIN NamedValues \/ NamedValues[n] = NullV

\* the body calls a function that is neither declared nor being defined
CallsUndeclared(e, Proto, fns) ==
  \E c \in CalleesOf(e) : ~IsDeclared(fns, c) /\ c # Proto.Name

\* C5: a definition whose body names an unknown variable or calls an
\* undeclared function returns no function, and no function of the module
\* is left with a body that does not end in a return.
C5_UnknownIdentifierFails ==
  (/\ last.handler = "definition"
   /\ last.ast # NullAST
   /\ \/ NamesUnknownVariable(last.ast.Body)
      \/ CallsUndeclared(last.ast.Body, last.ast.Proto, last.before)) =>
    /\ last.ret = NoFunction
    /\ \A F \in Range(TheModule.fns) : HasBody(F) => Complete(F)
    /\ ~IsDeclared(TheModule.fns, last.ast.Proto.Name)
         \/ FnNamed(TheModule.fns, last.ast.Proto.Name) \in Range(last.before)

\* fn f(x) y failed on the unknown y after its entry block was made
C5_Witness ==
  /\ last.handler = "definition"
  /\ last.ast # NullAST
  /\ last.ast.Proto.Name \notin last.defined
  /\ NamesUnknownVariable(last.ast.Body)
  /\ "Unknown Variable name" \in Range(last.log)
  /\ last.ret = NoFunction

\* C8: lowering an import of a name the module already holds reuses the
\* function it holds: the module has one function for the name.
C8_ImportReusesDeclaration ==
  (last.handler = "extern" /\ last.ast # NullAST) =>
    /\ Cardinality({i \in 1..Len(TheModule.fns) :
                      TheModule.fns[i].name.base = last.ast.Name}) = 1
    /\ IsDeclared(last.before, last.ast.Name) =>
         last.ret = FnNamed(last.before, last.ast.Name).id

\* C9: no variable is visible across functions: an instruction of a function
\* reads no argument of another function, the environment holds arguments
\* of the function being lowered only, and a top-level expression that names
\* a variable is not lowered.
C9_NoCrossFunctionVisibility ==
  /\ \A F \in FunctionsSeen :
       \A b \in 1..Len(F.blocks) :
         \A j \in 1..Len(F.blocks[b]) :
           \A v \in Operands(F.blocks[b][j]) : v.k = "arg" => v.fn = F.id
  /\ \A n \in DOMAIN NamedValues :
       NamedValues[n].k = "arg" => NamedValues[n].fn = Builder
  /\ (/\ last.handler = "expression"
      /\ last.ast # NullAST
      /\ VarsOf(last.ast.Body) # {}) => last.ret = NoFunction

\* the expression x was refused although a function with the parameter x
\* was lowered before it
C9_Witness ==
  /\ last.handler = "expression"
  /\ last.ast # NullAST
  /\ last.ast.Body = VariableExprAST(<<"x">>)
  /\ \E F \in Range(last.before) : HasBody(F) /\ <<"x">> \in Range(F.args)
  /\ last.ret = NoFunction

\* the instruction of the node at path p may stand before that of the node
\* at path q: the same node, a node below q, or a node to the left of q
RECURSIVE EmittedBefore(_, _)
EmittedBefore(p, q) ==
  IF q = <<>> THEN TRUE
  ELSE IF p = <<>> THEN FALSE
  ELSE IF Head(p) = Head(q) THEN EmittedBefore(Tail(p), Tail(q))
  ELSE Head(p) < Head(q)

\* C10: the instructions of a body stand in the post-order of the AST: left
\* operand, right operand, operator; arguments in source order, then call.
C10_PostOrderEmission ==
  \A F \in FunctionsSeen :
    \A b \in 1..Len(F.blocks) :
      \A i, j \in 1..Len(F.blocks[b]) :
        (i < j /\ F.blocks[b][i].op # "ret" /\ F.blocks[b][j].op # "ret") =>
          EmittedBefore(F.blocks[b][i].at, F.blocks[b][j].at)

\* f(x*x,x+1)-x*x was lowered to fmul, fadd, call, fmul, fsub, ret
C10_Witness ==
  \E F \in Range(TheModule.fns) :
    /\ Len(F.blocks) = 1
    /\ Len(F.blocks[1]) = 6
    /\ [i \in 1..6 |-> F.blocks[1][i].op]
         = <<"fmul", "fadd", "call", "fmul", "fsub", "ret">>

\* --- what the properties of the lexer speak of ---

\* the tokens that n calls of getNextToken() read from the parser state P
RECURSIVE TokensRead(_, _)
TokensRead(P, n) ==
  IF n = 0 THEN P.toks ELSE TokensRead(getNextToken(P), n - 1)

\* the text holds the closing pair of a multi-line comment
HoldsClose(text) ==
  \E i \in 1..Len(text) - 1 : text[i] = "*" /\ text[i + 1] = "/"

\* the '/' of the first closing pair after the opening whose '*' stands at
\* `open`, 0 when the text holds none
FirstClose(text, open) ==
  LET closes == {k \in open + 2..Len(text) :
                   text[k - 1] = "*" /\ text[k] = "/"}
  IN  IF closes = {} THEN 0
      ELSE CHOOSE k \in closes : \A m \in closes : k <= m

\* C6: a line comment, ended by newline, carriage return or end of input,
\* or a closed multi-line comment put between two tokens leaves the tokens
\* getTok returns as they are without it.
C6_CommentsInvisible ==
  (/\ probe.kind = "comment"
   /\ probe.style # "block-open"
   /\ ~HoldsClose(probe.body)) =>
    tokens = TokensRead(LexStart(probe.pre \o probe.post), Len(tokens))

\* C7: a multi-line comment ends at the first closing pair after its
\* opening, whatever '*' and '/' its body holds, and is unterminated only
\* when no closing pair follows.
C7_BlockCommentEndsAtFirstClose ==
  probe.kind = "comment" =>
    \A i \in 1..Len(comments) :
      comments[i].close = FirstClose(stdin, comments[i].open)

\* the tokens from the i-th on are all the end-of-input token
OnlyEofFrom(toks, i) == \A j \in i..Len(toks) : toks[j].tok = tok_eof

\* C11: when the input ends inside a multi-line comment that no closing pair
\* ends, the call of getTok that meets the comment reports the unterminated
\* comment and returns tok_eof, and so does every later call return tok_eof.
C11_UnterminatedCommentIsEof ==
  (/\ probe.kind = "comment"
   /\ probe.style = "block-open"
   /\ FirstClose(stdin, Len(probe.pre) + 2) = 0) =>
    /\ Len(tokens) > Len(probe.pre) => comments # <<>>
    /\ comments # <<>> =>
         /\ comments = <<[open |-> Len(probe.pre) + 2, close |-> 0]>>
         /\ \E i \in 1..Len(tokens) :
              /\ OnlyEofFrom(tokens, i)
              /\ \A j \in 1..i - 1 : tokens[j].tok # tok_eof
              /\ i = Len(tokens) => last.log = <<UnterminatedMsg>>
              /\ i < Len(tokens) => last.log = <<>>

\* 1 /* c was read, and two more calls of getTok after the one that met
\* the comment
C11_Witness ==
  /\ probe.kind = "comment"
  /\ probe.style = "block-open"
  /\ probe.pre = <<"1">>
  /\ probe.body = <<"c">>
  /\ comments = <<[open |-> 3, close |-> 0]>>
  /\ Len(tokens) = 4
  /\ OnlyEofFrom(tokens, 2)

\* --- what the properties of the parser speak of ---

\* the operators of the BinaryExprAST nodes of an AST
RECURSIVE OperatorsOf(_)
OperatorsOf(e) ==
  CASE e.kind = "Binary" ->
         {e.Op} \cup OperatorsOf(e.LHS) \cup OperatorsOf(e.RHS)
    [] e.kind = "Call" -> UNION {OperatorsOf(e.Args[i]) : i \in 1..Len(e.Args)}
    [] e.kind = "Function" -> OperatorsOf(e.Body)
    [] OTHER -> {}

\* the primary expression that is the one token t
PrimaryOf(t) ==
  IF t.tok = tok_number THEN NumberExprAST(t.num) ELSE VariableExprAST(t.id)

\* where the first line comment of the text begins, past its end if none
CommentStart(text) ==
  LET starts == {i \in 1..Len(text) - 1 : text[i] = "/" /\ text[i + 1] = "/"}
  IN  IF starts = {} THEN Len(text) + 1
      ELSE CHOOSE i \in starts : \A k \in starts : i <= k

\* C12: '/' is never a binary operator.  A '/' that begins no comment is
\* returned as the token '/' with the character after it kept in LastChar;
\* no AST holds a BinaryExprAST of operator '/'; and an expression that is a
\* variable or number followed by '/' parses to that primary alone and stops
\* with '/' as the current token.
C12_SlashNeverBinaryOperator ==
  probe.kind = "tokens" =>
    /\ "/" \notin OperatorsOf(last.ast)
    /\ CurTok = "/" =>
         IF LastChar = EOF
         THEN rd = Len(stdin) /\ stdin[rd] = "/"
         ELSE rd >= 2 /\ stdin[rd - 1] = "/" /\ stdin[rd] = LastChar
    /\ pc = "done" =>
         Cardinality({j \in 1..Len(tokens) : tokens[j].tok = "/"})
           = Cardinality({i \in 1..CommentStart(stdin) - 1 : stdin[i] = "/"})
    /\ (/\ last.handler = "expression"
        /\ last.from >= 1
        /\ Len(tokens) > last.from
        /\ tokens[last.from].tok \in {tok_identifier, tok_number}
        /\ tokens[last.from + 1].tok = "/") =>
         /\ last.ast # NullAST
         /\ last.ast.Body = PrimaryOf(tokens[last.from])
         /\ CurTok = "/"
         /\ Len(tokens) = last.from + 1

\* f/f was parsed as the expression f, the parser stopping at '/' with the
\* second f not read
C12_Witness ==
  /\ probe.kind = "tokens"
  /\ probe.starter = <<>>
  /\ probe.lexemes = <<"f", "/", "f">>
  /\ probe.sep = <<>>
  /\ last.handler = "expression"
  /\ last.ast # NullAST
  /\ last.ast.Body = VariableExprAST(<<"f">>)
  /\ CurTok = "/"
  /\ LastChar = "f"
  /\ Len(tokens) = 2

\* --- the token shape  identifier '(' identifier* ')'  of a prototype ---

IsName(lexeme) == lexeme \in {"f", "x"}

\* the index of the first lexeme from the i-th on that is no identifier,
\* one past the last lexeme if there is none
RECURSIVE NamesEnd(_, _)
NamesEnd(lexemes, i) ==
  IF i <= Len(lexemes) /\ IsName(lexemes[i])
  THEN NamesEnd(lexemes, i + 1)
  ELSE i

\* the error the shape asks for, "" when the lexemes begin with a prototype
ShapeError(lexemes) ==
  IF Len(lexemes) < 1 \/ ~IsName(lexemes[1])
  THEN "Expected function name in prototype"
  ELSE IF Len(lexemes) < 2 \/ lexemes[2] # "("
  THEN "Expected '(' in prototype"
  ELSE IF NamesEnd(lexemes, 3) > Len(lexemes)
            \/ lexemes[NamesEnd(lexemes, 3)] # ")"
  THEN "Expected ')' in prototype"
  ELSE ""

\* the prototype the lexemes begin with
ShapePrototype(lexemes) ==
  PrototypeAST(<<lexemes[1]>>,
               [i \in 1..NamesEnd(lexemes, 3) - 3 |-> <<lexemes[i + 2]>>])

PrototypeErrors ==
  {"Expected function name in prototype", "Expected '(' in prototype",
   "Expected ')' in prototype"}

\* C13: ParsePrototype accepts exactly  identifier '(' identifier* ')'.  On
\* that shape it returns the prototype of the name and of the parameter
\* names in source order and leaves the token after ')' as the current one;
\* on any other, a ',' between the parentheses included, it writes the
\* error of the missing part and returns null.
C13_PrototypeShape ==
  (/\ probe.kind = "prototype"
   /\ last.handler \in {"extern", "definition"}
   /\ last.from = 1) =>
    IF ShapeError(probe.lexemes) = ""
    THEN /\ Range(last.log) \cap PrototypeErrors = {}
         /\ last.handler = "extern" =>
              /\ last.ast = ShapePrototype(probe.lexemes)
              /\ Len(tokens) = NamesEnd(probe.lexemes, 3) + 2
         /\ last.handler = "definition" /\ last.ast # NullAST =>
              last.ast.Proto = ShapePrototype(probe.lexemes)
    ELSE /\ last.ast = NullAST
         /\ last.log = <<ShapeError(probe.lexemes)>>

\* import f ( x f ) gave the prototype f with the parameters x, f
C13_Witness ==
  /\ probe.kind = "prototype"
  /\ probe.lexemes = <<"f", "(", "x", "f", ")">>
  /\ last.handler = "extern"
  /\ last.from = 1
  /\ last.ast = PrototypeAST(<<"f">>, << <<"x">>, <<"f">> >>)
  /\ CurTok = tok_eof

\* C14: on an input of whitespace only, the empty one included, the first
\* call of getTok returns tok_eof and so does every later call.
C14_WhitespaceOnlyIsEof ==
  (probe.kind = "whitespace" /\ \A i \in 1..Len(stdin) : isspace(stdin[i])) =>
    /\ OnlyEofFrom(tokens, 1)
    /\ tokens # <<>> => rd = Len(stdin) /\ LastChar = EOF

\* a blank, a tab, a newline and a carriage return were read by three calls
C14_Witness ==
  /\ probe.kind = "whitespace"
  /\ stdin = <<" ", "\t", "\n", "\r">>
  /\ Len(tokens) = 3
  /\ OnlyEofFrom(tokens, 1)

IsNumberChar(c) == isdigit(c) \/ c = "."

\* the maximal runs of digits and '.' of the text, as pairs of the first
\* and the last position
NumberRuns(text) ==
  {r \in (1..Len(text)) \X (1..Len(text)) :
     /\ r[1] <= r[2]
     /\ \A i \in r[1]..r[2] : IsNumberChar(text[i])
     /\ r[1] = 1 \/ ~IsNumberChar(text[r[1] - 1])
     /\ r[2] = Len(text) \/ ~IsNumberChar(text[r[2] + 1])}

\* the run follows a letter: its digits up to the first '.' go on the
\* identifier the letter belongs to
FollowsLetter(text, r) == r[1] > 1 /\ isalpha(text[r[1] - 1])

\* where the number token of the run begins, 0 when the identifier before
\* it takes the whole run
NumberStart(text, r) ==
  IF ~FollowsLetter(text, r) THEN r[1]
  ELSE LET dots == {i \in r[1]..r[2] : text[i] = "."}
       IN  IF dots = {} THEN 0
           ELSE CHOOSE i \in dots : \A k \in dots : i <= k

\* the runs that getTok has read to their end
RunsRead(text) ==
  {r \in NumberRuns(text) :
     /\ NumberStart(text, r) # 0
     /\ r[2] < rd \/ (r[2] = rd /\ LastChar = EOF)}

Resolved(NV) == {n \in DOMAIN NV : NV[n] # NullV}

\* C16: while the body of a definition is lowered the environment maps the
\* parameter names of the definition's own prototype and no other name, also
\* when the definition reuses the function of an earlier import that named
\* its parameters otherwise.
C16_EnvironmentIsOwnParameters ==
  (/\ probe.kind = "program"
   /\ last.handler = "definition"
   /\ last.ast # NullAST
   /\ last.ast.Proto.Name \notin last.defined) =>
    Resolved(NamedValues) = Range(last.ast.Proto.Args)

\* C17: a definition whose body fails to lower removes the function it
\* created and no other: every function the module held before the attempt,
\* an import of the same name included, is in the module afterwards,
\* unchanged, and no instruction is left that calls a removed function.
C17_FailedLoweringIsLocal ==
  (/\ probe.kind = "program"
   /\ last.handler = "definition"
   /\ last.ast # NullAST
   /\ last.ret = NoFunction) =>
    /\ \A F \in Range(last.before) : F \in Range(TheModule.fns)
    /\ pc # "aborted"

\* the AST has no null part
RECURSIVE FullyFormed(_)
FullyFormed(e) ==
  CASE e.kind \in {"Number", "Variable"} -> TRUE
    [] e.kind = "Binary" ->
         /\ e.LHS # NullAST /\ FullyFormed(e.LHS)
         /\ e.RHS # NullAST /\ FullyFormed(e.RHS)
    [] e.kind = "Call" ->
         \A i \in 1..Len(e.Args) :
           e.Args[i] # NullAST /\ FullyFormed(e.Args[i])
    [] e.kind = "Prototype" -> TRUE
    [] e.kind = "Function" ->
         /\ e.Proto # NullAST /\ e.Proto.kind = "Prototype"
         /\ e.Body # NullAST /\ FullyFormed(e.Body)
    [] OTHER -> FALSE

ParseErrors ==
  PrototypeErrors \cup
    {"Unknown token when expecting an expression", "Expected ')'",
     "Expected ',' or ')' in argument list"}

\* C18: an AST the parser returns as non-null is fully formed: no
\* BinaryExprAST, CallExprAST or FunctionAST in it has a null part; and a
\* parse that wrote a parse error returned null for the whole construct.
C18_ASTFullyFormed ==
  probe.kind = "tokens" =>
    /\ last.ast # NullAST => FullyFormed(last.ast)
    /\ Range(last.log) \cap ParseErrors # {} => last.ast = NullAST
    /\ (last.handler \in {"definition", "extern", "expression"}
          /\ last.ast = NullAST) =>
         /\ last.ret = NoFunction
         /\ TheModule.fns = last.before

\* 1 + ) was given up as a whole after its left operand had been parsed
C18_Witness ==
  /\ probe.kind = "tokens"
  /\ probe.starter = <<>>
  /\ probe.lexemes = <<"1", "+", ")">>
  /\ last.handler = "expression"
  /\ last.from = 1
  /\ last.ast = NullAST
  /\ last.log = <<"Unknown token when expecting an expression">>

\* C19: the driver loop terminates on every input: each turn of MainLoop
\* that does not see tok_eof reads at least one token, and in the end
\* tok_eof is the current token and MainLoop returns.
C19_DriverTerminates ==
  /\ [](last.handler \in {"semicolon", "definition", "extern", "expression"}
          => Len(tokens) > last.from)
  /\ <>(pc = "done" /\ CurTok = tok_eof)

\* MainLoop returned after four failed parses, each followed by the skip of
\* one token
C19_Witness ==
  /\ probe.kind = "tokens"
  /\ probe.starter = <<>>
  /\ probe.lexemes = <<")", "+", ")", "/">>
  /\ pc = "done"
  /\ last.handler = "eof"
  /\ Len(tokens) = 5

\* C20: the "invalid binary operator" error of lowering is unreachable.  No
\* handler writes it; every BinaryExprAST the parser builds has an operator
\* with a positive entry in BinopPrecedence; every character with a positive
\* entry is given an instruction by the switch of BinaryExprAST::codegen
\* when both operands lowered; and an expression of numbers joined by
\* installed operators lowers to a function.
C20_InvalidBinaryOperatorUnreachable ==
  LET Candidates == BinaryOperators \cup
                      {"/", ">", "=", "!", "(", ")", ",", ";", "a", "1"}
      one == ConstantFP(strtod(<<"1">>))
      two == ConstantFP(strtod(<<"2">>))
  IN  /\ "invalid binary operator" \notin Range(last.log)
      /\ last.ast # NullAST =>
            \A op \in OperatorsOf(last.ast) : BinopPrecedence(op) > 0
      /\ \A c \in Candidates :
            BinopPrecedence(c) > 0 =>
              /\ BinaryEmit(c, one, Lowered(two, LoweringNow), <<>>).v # NullV
              /\ BinaryEmit(c, one, Lowered(two, LoweringNow), <<>>).G.log
                   = <<>>
      /\ (/\ probe.kind = "expression"
          /\ probe.style \in {"number", "paren"}
          /\ last.handler = "expression") =>
            /\ last.ast # NullAST
            /\ OperatorsOf(last.ast) = Range(probe.ops)
            /\ last.ret # NoFunction
            /\ last.log = <<>>

\* 1*2<3+4 was parsed and lowered, each BinaryExprAST through its case
C20_Witness ==
  /\ probe.kind = "expression"
  /\ probe.style = "number"
  /\ probe.ops = <<"*", "<", "+">>
  /\ last.handler = "expression"
  /\ OperatorsOf(last.ast) = {"*", "<", "+"}
  /\ last.ret # NoFunction

====
